---------------------------- MODULE Spec2Model ----------------------------
(***************************************************************************)
(* A model of the Loki range-query client (loki_utils/loki_client.py) and  *)
(* of the log-retrieval tool built on it (agent.py).                       *)
(*                                                                         *)
(* Python values are tagged records, so that values of different Python    *)
(* types can be told apart without comparing their contents:               *)
(*   None   [t |-> "null"]          str   [t |-> "str",  s |-> "..."]      *)
(*   int    [t |-> "num", n |-> 5]  list  [t |-> "list", l |-> <<...>>]    *)
(*   dict   [t |-> "dict", d |-> [key |-> value, ...]]                     *)
(* An exception is [cls |-> <Python class>, ...its attributes...]; the     *)
(* result of a function that may raise is [ok |-> TRUE, val |-> v] or      *)
(* [ok |-> FALSE, exc |-> e].                                              *)
(***************************************************************************)
EXTENDS Integers, Sequences, FiniteSets, TLC

VARIABLES
    pc,            \* position of the running call
    base_url,      \* LokiClient(base_url=...), a sequence of characters
    basic_auth,    \* LokiAuth.basic_auth: NoneVal or [user, password] (ASCII codes)
    bearer_token,  \* LokiAuth.bearer_token: NoneVal or [tok] (ASCII codes)
    hours_ago,     \* the lookback argument
    arg_data,      \* the decoded body handed to _parse_streams
    now,           \* the clock reading of calculate_range, in clock ticks
    clock_reads,   \* how many times datetime.now was called
    range,         \* (start_ns, end_ns) once computed
    request,       \* the urllib Request once built
    requests,      \* number of urlopen calls issued
    outcome,       \* what the backend did with the request
    raw_records,   \* value returned by query_range / _parse_streams
    records,       \* agent.py: the merged records
    output,        \* agent.py: rows of the serialised result
    headers,       \* value returned by LokiAuth.headers
    caller,        \* who called: "direct" or "agent" (retrieve_logs_for_run)
    qr_done,       \* whether query_range has returned normally
    exc            \* exception that ended the call, or NoExc

vars == <<pc, base_url, basic_auth, bearer_token, hours_ago, arg_data, now,
          clock_reads, range, request, requests, outcome, raw_records,
          records, output, headers, caller, qr_done, exc>>

-----------------------------------------------------------------------------
(* Python values *)

NoneVal == [t |-> "null"]
JNum(n) == [t |-> "num", n |-> n]
JStr(s) == [t |-> "str", s |-> s]
JList(l) == [t |-> "list", l |-> l]
JDict(d) == [t |-> "dict", d |-> d]
EmptyDict == JDict([k \in {} |-> NoneVal])

NoExc == [cls |-> "none"]
Ok(v) == [ok |-> TRUE, val |-> v]
Raise(e) == [ok |-> FALSE, exc |-> e]

-----------------------------------------------------------------------------
(* calculate_range and _to_unix_ns.                                         *)
(*                                                                          *)
(* datetime counts microseconds; dt.timestamp() divides the microseconds    *)
(* since the epoch by 10**6 in binary floating point, the product with      *)
(* 1_000_000_000 is rounded again, and int() truncates.  TLC's integers     *)
(* are 32 bits wide, so the model keeps the arithmetic and scales the       *)
(* units: a clock tick stands for a microsecond, with TicksPerSec ticks to  *)
(* the second, NsPerTick nanoseconds to the tick, SecPerHour seconds to the *)
(* hour and a significand of MantBits bits (10**6, 10**3, 3600 and 53 in    *)
(* CPython).  A float is [m, e], standing for m * 2^e.                      *)

MantBits == 5
TicksPerSec == 10
NsPerTick == 10
SecPerHour == 3
MaxNow == 40

NsPerSec == NsPerTick * TicksPerSec
TicksPerHour == SecPerHour * TicksPerSec
NsPerHour == NsPerTick * TicksPerHour

RECURSIVE Pow2(_)
Pow2(k) == IF k <= 0 THEN 1 ELSE 2 * Pow2(k - 1)

RECURSIVE BitLen(_)
BitLen(n) == IF n = 0 THEN 0 ELSE 1 + BitLen(n \div 2)

\* n/d rounded to the nearest integer, ties to even (IEEE 754 default)
RoundRat(n, d) ==
    LET q == n \div d
        r == n % d
    IN  IF 2 * r > d \/ (2 * r = d /\ q % 2 = 1) THEN q + 1 ELSE q

\* the integer n * 2^e rounded to MantBits significant bits
RoundInt(n, e) ==
    LET k == BitLen(n) - MantBits
    IN  IF k <= 0 THEN [m |-> n, e |-> e]
        ELSE [m |-> RoundRat(n, Pow2(k)), e |-> e + k]

IntToFloat(n) == RoundInt(n, 0)

RECURSIVE ShiftUp(_, _, _)
ShiftUp(a, b, s) ==
    IF a * Pow2(s) >= Pow2(MantBits - 1) * b THEN s ELSE ShiftUp(a, b, s + 1)

RECURSIVE ShiftDown(_, _, _)
ShiftDown(a, b, k) ==
    IF a < Pow2(MantBits) * b * Pow2(k) THEN k ELSE ShiftDown(a, b, k + 1)

\* int / int, correctly rounded (a >= 0, b > 0)
FloatDiv(a, b) ==
    IF a = 0 THEN [m |-> 0, e |-> 0]
    ELSE IF a >= Pow2(MantBits) * b
         THEN LET k == ShiftDown(a, b, 0)
              IN  [m |-> RoundRat(a, b * Pow2(k)), e |-> k]
         ELSE LET s == ShiftUp(a, b, 0)
              IN  [m |-> RoundRat(a * Pow2(s), b), e |-> -s]

FloatMul(x, y) == RoundInt(x.m * y.m, x.e + y.e)

\* int(x) for x >= 0: truncation
FloatToInt(x) ==
    IF x.e >= 0 THEN x.m * Pow2(x.e) ELSE x.m \div Pow2(-x.e)

\* dt.timestamp(): seconds since the epoch as a float (ticks >= 0)
Timestamp(ticks) == FloatDiv(ticks, TicksPerSec)

\* _to_unix_ns(dt) == int(dt.timestamp() * 1_000_000_000); rounding and
\* truncation are symmetric about zero
UnixNsMagnitude(ticks) ==
    FloatToInt(FloatMul(Timestamp(ticks), IntToFloat(NsPerSec)))

ToUnixNs(ticks) ==
    IF ticks < 0 THEN -UnixNsMagnitude(-ticks) ELSE UnixNsMagnitude(ticks)

ValueErrorHours == [cls |-> "ValueError", msg |-> "hours_ago must be non-negative"]

\* timedelta(hours=hours_ago), in ticks
TimedeltaHours(h) == h * TicksPerHour

\* calculate_range without its guard on hours_ago
CalculateRangeUnchecked(h, t) ==
    Ok([start_ns |-> ToUnixNs(t - TimedeltaHours(h)), end_ns |-> ToUnixNs(t)])

\* calculate_range(hours_ago) with the clock reading t
CalculateRange(h, t) ==
    IF h < 0 THEN Raise(ValueErrorHours)
    ELSE LET start == t - TimedeltaHours(h)
         IN  Ok([start_ns |-> ToUnixNs(start), end_ns |-> ToUnixNs(t)])

-----------------------------------------------------------------------------
(* LokiAuth.headers.  Text is a sequence of ASCII codes; str.encode() and   *)
(* bytes.decode() are the identity on ASCII, the only characters drawn.     *)

Colon == 58
PadChar == 61
BasicPrefix == <<66, 97, 115, 105, 99, 32>>          \* "Basic "
BearerPrefix == <<66, 101, 97, 114, 101, 114, 32>>   \* "Bearer "

StrVal(chars) == [t |-> "str", s |-> chars]
TupleVal(user, password) == [t |-> "tuple", user |-> user, password |-> password]

\* bool(v) for the values a LokiAuth field holds: None and "" are falsy, a
\* two-element tuple is truthy whatever it holds
Truthy(v) ==
    CASE v.t = "null" -> FALSE
      [] v.t = "str" -> Len(v.s) > 0
      [] v.t = "tuple" -> TRUE

\* the base64 alphabet: index 0..63 to its ASCII code
B64Char(i) ==
    IF i < 26 THEN 65 + i
    ELSE IF i < 52 THEN 97 + (i - 26)
    ELSE IF i < 62 THEN 48 + (i - 52)
    ELSE IF i = 62 THEN 43 ELSE 47

\* base64.b64encode
RECURSIVE B64Encode(_)
B64Encode(b) ==
    IF Len(b) = 0 THEN <<>>
    ELSE IF Len(b) = 1 THEN
        <<B64Char(b[1] \div 4), B64Char((b[1] % 4) * 16), PadChar, PadChar>>
    ELSE IF Len(b) = 2 THEN
        <<B64Char(b[1] \div 4), B64Char((b[1] % 4) * 16 + b[2] \div 16),
          B64Char((b[2] % 16) * 4), PadChar>>
    ELSE
        <<B64Char(b[1] \div 4), B64Char((b[1] % 4) * 16 + b[2] \div 16),
          B64Char((b[2] % 16) * 4 + b[3] \div 64), B64Char(b[3] % 64)>>
        \o B64Encode(SubSeq(b, 4, Len(b)))

ValueErrorBoth ==
    [cls |-> "ValueError", msg |-> "Use either basic_auth or bearer_token, not both."]

EmptyHeaders == [k \in {} |-> <<>>]
AuthorizationHeader(value) == [k \in {"Authorization"} |-> value]

\* headers() resolving a double credential by precedence instead of failing
HeadersPrecedence(basic, bearer) ==
    IF Truthy(basic) THEN
        Ok(AuthorizationHeader(
            BasicPrefix \o B64Encode(basic.user \o <<Colon>> \o basic.password)))
    ELSE IF Truthy(bearer) THEN Ok(AuthorizationHeader(BearerPrefix \o bearer.s))
    ELSE Ok(EmptyHeaders)

\* LokiAuth(basic, bearer).headers()
Headers(basic, bearer) ==
    IF Truthy(basic) /\ Truthy(bearer) THEN Raise(ValueErrorBoth)
    ELSE IF Truthy(basic) THEN
        Ok(AuthorizationHeader(
            BasicPrefix \o B64Encode(basic.user \o <<Colon>> \o basic.password)))
    ELSE IF Truthy(bearer) THEN Ok(AuthorizationHeader(BearerPrefix \o bearer.s))
    ELSE Ok(EmptyHeaders)

-----------------------------------------------------------------------------
(* LokiClient._parse_streams *)

IsDict(v) == v.t = "dict"

\* d.get(k, default) on a dict value
DictGet(v, k, default) == IF k \in DOMAIN v.d THEN v.d[k] ELSE default

\* the characters of the strings that stand where a list is expected
CharsOf(s) ==
    CASE s = "" -> <<>>
      [] s = "ab" -> <<"a", "b">>

RECURSIVE SetToSeq(_)
SetToSeq(S) ==
    IF S = {} THEN <<>>
    ELSE LET x == CHOOSE y \in S : TRUE IN <<x>> \o SetToSeq(S \ {x})

\* whether `for x in v` can start: None and numbers are not iterable
Iterable(v) == v.t \in {"list", "str", "dict"}

\* what `for x in v` yields: a list's elements, a string's characters, a
\* dict's keys
Items(v) ==
    CASE v.t = "list" -> v.l
      [] v.t = "str" -> [i \in 1..Len(CharsOf(v.s)) |-> JStr(CharsOf(v.s)[i])]
      [] v.t = "dict" ->
            LET keys == SetToSeq(DOMAIN v.d)
            IN  [i \in 1..Len(keys) |-> JStr(keys[i])]

TypeErrorNotIterable(v) ==
    [cls |-> "TypeError", msg |-> "object is not iterable", of |-> v.t]

\* a test that also lets longer lists through
IsPairLoose(entry) == entry.t = "list" /\ Len(entry.l) >= 2

\* line 140: the entry is kept when it is a list of exactly two elements
IsPair(entry) == entry.t = "list" /\ Len(entry.l) = 2

\* lines 139-147: the inner loop over one stream's values
RECURSIVE EntriesLoop(_, _, _)
EntriesLoop(entries, labels, result) ==
    IF Len(entries) = 0 THEN result
    ELSE LET entry == Head(entries)
         IN  IF ~IsPair(entry)
             THEN EntriesLoop(Tail(entries), labels, result)
             ELSE EntriesLoop(Tail(entries), labels,
                      Append(result, [timestamp |-> entry.l[1],
                                      labels |-> labels,
                                      record |-> entry.l[2]]))

\* lines 136-148: the outer loop over the streams
RECURSIVE StreamsLoop(_, _)
StreamsLoop(streams, result) ==
    IF Len(streams) = 0 THEN Ok(result)
    ELSE LET stream == Head(streams)
             labels == IF IsDict(stream)
                       THEN DictGet(stream, "stream", EmptyDict) ELSE EmptyDict
             values == IF IsDict(stream)
                       THEN DictGet(stream, "values", JList(<<>>)) ELSE JList(<<>>)
         IN  IF ~Iterable(values) THEN Raise(TypeErrorNotIterable(values))
             ELSE StreamsLoop(Tail(streams),
                      EntriesLoop(Items(values), labels, result))

\* LokiClient._parse_streams(data)
ParseStreams(data) ==
    LET data_block == IF IsDict(data)
                      THEN DictGet(data, "data", EmptyDict) ELSE EmptyDict
        streams == IF IsDict(data_block)
                   THEN DictGet(data_block, "result", JList(<<>>)) ELSE JList(<<>>)
    IN  IF ~Iterable(streams) THEN Raise(TypeErrorNotIterable(streams))
        ELSE StreamsLoop(Items(streams), <<>>)

-----------------------------------------------------------------------------
(* LokiClient.__init__ and LokiClient.query_range *)

\* base_url.rstrip("/")
RECURSIVE RStripSlash(_)
RStripSlash(url) ==
    IF Len(url) > 0 /\ url[Len(url)] = "/"
    THEN RStripSlash(SubSeq(url, 1, Len(url) - 1))
    ELSE url

ValueErrorBaseUrl == [cls |-> "ValueError", msg |-> "base_url is required"]

\* line 122: RuntimeError(f"Loki query failed with HTTP {exc.code}: {exc.read().decode()}")
HttpFailure(code, body) ==
    [cls |-> "RuntimeError", text |-> "Loki query failed with HTTP ",
     code |-> code, body |-> body, cause |-> "HTTPError"]

\* line 124: RuntimeError(f"Failed to reach Loki: {exc.reason}")
ReachFailure(reason) ==
    [cls |-> "RuntimeError", text |-> "Failed to reach Loki: ",
     reason |-> reason, cause |-> "URLError"]

\* an exception of the socket or the codec, which no except clause catches
Uncaught(cls) == [cls |-> cls]

JSONDecodeError == [cls |-> "JSONDecodeError"]

\* {"Accept": "application/json", **self.auth.headers()}
RequestHeaders(auth_headers) ==
    [k \in {"Accept"} \cup DOMAIN auth_headers |->
        IF k \in DOMAIN auth_headers THEN auth_headers[k] ELSE "application/json"]

\* lines 118-124: what query_range makes of the backend's answer o: the body
\* text on success, the exception that leaves the call otherwise
Classify(o) ==
    CASE o.kind = "http_error" -> Raise(HttpFailure(o.code, o.body))
      [] o.kind = "url_error" -> Raise(ReachFailure(o.reason))
      [] o.kind = "socket_timeout" -> Raise(Uncaught("TimeoutError"))
      [] o.kind = "success" ->
            IF o.body.enc = "utf-8" THEN Ok(o.body)
            ELSE Raise(Uncaught("UnicodeDecodeError"))

\* json.loads(payload) on a response body
JsonLoads(text) ==
    IF text.syntax = "json" THEN Ok(text.value) ELSE Raise(JSONDecodeError)

\* LokiClient.__init__
ClientInit ==
    /\ pc = "client_init"
    /\ IF Len(base_url) = 0
       THEN /\ exc' = ValueErrorBaseUrl
            /\ pc' = "raised"
            /\ UNCHANGED base_url
       ELSE /\ base_url' = RStripSlash(base_url)
            /\ pc' = "qr_range"
            /\ UNCHANGED exc
    /\ UNCHANGED <<basic_auth, bearer_token, hours_ago, arg_data, now,
                   clock_reads, range, request, requests, outcome, raw_records,
                   records, output, headers, caller, qr_done>>

\* the clock readings a query may see
QueryClock == {MaxNow - 1, MaxNow}

\* query_range, line 103: start_ns, end_ns = calculate_range(hours_ago)
QRange ==
    /\ pc = "qr_range"
    /\ \E t \in QueryClock :
          LET r == CalculateRange(hours_ago, t)
          IN  IF r.ok
              THEN /\ now' = t
                   /\ clock_reads' = clock_reads + 1
                   /\ range' = r.val
                   /\ pc' = "qr_request"
                   /\ UNCHANGED exc
              ELSE /\ exc' = r.exc
                   /\ pc' = "raised"
                   /\ UNCHANGED <<now, clock_reads, range>>
    /\ UNCHANGED <<base_url, basic_auth, bearer_token, hours_ago, arg_data,
                   request, requests, outcome, raw_records, records, output,
                   headers, caller, qr_done>>

\* query_range, lines 104-116: the parameters, the URL and the Request
QRequest ==
    /\ pc = "qr_request"
    /\ LET h == Headers(basic_auth, bearer_token)
       IN  IF h.ok
           THEN /\ headers' = h.val
                /\ request' =
                     [endpoint |-> base_url \o <<"/loki/api/v1/query_range">>,
                      start |-> range.start_ns, end |-> range.end_ns,
                      step |-> "60s",
                      direction |-> IF caller = "agent" THEN "FORWARD" ELSE "BACKWARD",
                      limit |-> IF caller = "agent" THEN "5000" ELSE "",
                      headers |-> RequestHeaders(h.val)]
                /\ pc' = "qr_urlopen"
                /\ UNCHANGED exc
           ELSE /\ exc' = h.exc
                /\ pc' = "raised"
                /\ UNCHANGED <<headers, request>>
    /\ UNCHANGED <<base_url, basic_auth, bearer_token, hours_ago, arg_data, now,
                   clock_reads, range, requests, outcome, raw_records, records,
                   output, caller, qr_done>>

-----------------------------------------------------------------------------
(* The backend: what one HTTP request can come back with *)

MaxEntries == 3
MaxLogEntries == 2

Absent == [t |-> "absent"]

\* a dict of up to two keys; a key whose value is Absent is left out
Dict2(k1, v1, k2, v2) ==
    LET val(k) == IF k = k1 THEN v1 ELSE v2
    IN  JDict([k \in {k \in {k1, k2} : val(k).t # "absent"} |-> val(k)])

\* streams holding exactly e value entries; those of Extra hold none
StreamsOfSize(e, Labels, Entries, Extra) ==
    {Dict2("stream", lb, "values", JList(vs)) :
        lb \in Labels, vs \in [1..e -> Entries]}
    \cup (IF e = 0 THEN Extra ELSE {})

\* how `budget` value entries can be shared out between two streams
Shares(budget) == {x \in (0..budget) \X (0..budget) : x[1] + x[2] <= budget}

\* the lists of at most two streams holding at most `budget` value entries
\* together
StreamLists(budget, Labels, Entries, Extra) ==
    {<<>>}
    \cup UNION {{<<st>> : st \in StreamsOfSize(e, Labels, Entries, Extra)} :
                e \in 0..budget}
    \cup UNION {{<<st1, st2>> :
                    st1 \in StreamsOfSize(e[1], Labels, Entries, Extra),
                    st2 \in StreamsOfSize(e[2], Labels, Entries, Extra)} :
                e \in Shares(budget)}

\* {"data": {"result": result}}
Envelope(result) == JDict([data |-> JDict([result |-> result])])

\* bodies whose "data" or "data.result" is missing or of another shape
OddEnvelopes ==
    {NoneVal, JList(<<>>), EmptyDict, JDict([data |-> NoneVal]),
     JDict([data |-> JList(<<>>)]), JDict([data |-> EmptyDict])}
    \cup {Envelope(r) : r \in {NoneVal, JNum(0), JStr("ab"), EmptyDict}}

\* value entries: two-element pairs, and entries of every other shape
ShapePairs == {JList(<<JStr(ts), JStr("a")>>) : ts \in {"1", "2"}}
ShapeNonPairs ==
    {JList(<<JStr("1")>>), JList(<<JStr("1"), JStr("a"), JStr("b")>>), JStr("ab")}
ShapeLabels == {Absent, JDict([stream |-> JStr("stdout")])}
ShapeExtra ==
    {Dict2("stream", lb, "values", v) :
        lb \in ShapeLabels, v \in {Absent, NoneVal, JStr("ab")}}
    \cup {NoneVal}

ShapeEntries == ShapePairs \cup ShapeNonPairs

JsonText(v) == [enc |-> "utf-8", syntax |-> "json", value |-> v]
MalformedText == [enc |-> "utf-8", syntax |-> "malformed"]
BinaryBody == [enc |-> "binary"]

Failures ==
    {[kind |-> "http_error", code |-> c, body |-> "internal error"] : c \in {404, 500}}
    \cup {[kind |-> "url_error", reason |-> r] :
            r \in {"Name or service not known", "Connection refused", "timed out"}}
    \cup {[kind |-> "socket_timeout"]}

\* what the backend may answer a direct query_range call
QueryOutcomes ==
    Failures
    \cup {[kind |-> "success", body |-> b] :
            b \in {MalformedText, BinaryBody}
                  \cup {JsonText(v) : v \in OddEnvelopes}
                  \cup {JsonText(Envelope(JList(r))) :
                          r \in StreamLists(1, ShapeLabels,
                                  ShapeEntries, ShapeExtra)}}

\* log lines as Loki returns them to the tool
LogLines ==
    {"{\"msg\":\"ok\"}", "{\"level\":\"x\"}",
     "{\"timestamp\":\"t0\",\"stream\":\"s0\"}", "plain text"}
LogEntries == {JList(<<JStr(ts), JStr(p)>>) : ts \in {"1", "2"}, p \in LogLines}
LogLabels ==
    {JDict([stream |-> JStr("stdout")]), JDict([stream |-> JStr("stderr")]),
     JDict([source |-> JStr("nextflow")])}

\* what the backend may answer the tool's query
AgentOutcomes ==
    Failures
    \cup {[kind |-> "success", body |-> b] :
            b \in {MalformedText}
                  \cup {JsonText(Envelope(JList(r))) :
                          r \in StreamLists(MaxLogEntries, LogLabels,
                                           LogEntries, {})}}

Outcomes == IF caller = "agent" THEN AgentOutcomes ELSE QueryOutcomes

\* the urlopen step trying once more when the backend cannot be reached
QUrlopenRetry ==
    /\ pc = "qr_urlopen"
    /\ \E o \in Outcomes :
          LET r == Classify(o)
          IN  /\ outcome' = o
              /\ requests' = IF o.kind = "url_error" THEN requests + 2 ELSE requests + 1
              /\ IF r.ok
                 THEN /\ pc' = "qr_loads"
                      /\ UNCHANGED exc
                 ELSE /\ pc' = "raised"
                      /\ exc' = r.exc
    /\ UNCHANGED <<base_url, basic_auth, bearer_token, hours_ago, arg_data, now,
                   clock_reads, range, request, raw_records, records, output,
                   headers, caller, qr_done>>

\* query_range, lines 118-124: the one urlopen and the reading of the body
QUrlopen ==
    /\ pc = "qr_urlopen"
    /\ requests' = requests + 1
    /\ \E o \in Outcomes :
          LET r == Classify(o)
          IN  /\ outcome' = o
              /\ IF r.ok
                 THEN /\ pc' = "qr_loads"
                      /\ UNCHANGED exc
                 ELSE /\ pc' = "raised"
                      /\ exc' = r.exc
    /\ UNCHANGED <<base_url, basic_auth, bearer_token, hours_ago, arg_data, now,
                   clock_reads, range, request, raw_records, records, output,
                   headers, caller, qr_done>>

\* query_range, line 126: data = json.loads(payload)
QLoads ==
    /\ pc = "qr_loads"
    /\ LET r == JsonLoads(outcome.body)
       IN  IF r.ok
           THEN /\ arg_data' = r.val
                /\ pc' = "qr_parse"
                /\ UNCHANGED exc
           ELSE /\ exc' = r.exc
                /\ pc' = "raised"
                /\ UNCHANGED arg_data
    /\ UNCHANGED <<base_url, basic_auth, bearer_token, hours_ago, now,
                   clock_reads, range, request, requests, outcome, raw_records,
                   records, output, headers, caller, qr_done>>

\* query_range, line 127: return self._parse_streams(data)
QParse ==
    /\ pc = "qr_parse"
    /\ LET r == ParseStreams(arg_data)
       IN  IF r.ok
           THEN /\ raw_records' = r.val
                /\ qr_done' = TRUE
                /\ pc' = IF caller = "agent" THEN "ag_merge" ELSE "returned"
                /\ UNCHANGED exc
           ELSE /\ exc' = r.exc
                /\ pc' = "raised"
                /\ UNCHANGED <<raw_records, qr_done>>
    /\ UNCHANGED <<base_url, basic_auth, bearer_token, hours_ago, arg_data, now,
                   clock_reads, range, request, requests, outcome, records,
                   output, headers, caller>>

-----------------------------------------------------------------------------
(* agent.py: retrieve_logs_for_run *)

Instant(ns) == [t |-> "instant", ns |-> ns]
NaN == [t |-> "nan"]

\* json.loads(str(record["record"])) on the log lines drawn
LineLoads(v) ==
    IF v.t # "str" THEN Raise(JSONDecodeError)
    ELSE CASE v.s = "{\"msg\":\"ok\"}" -> Ok(JDict([msg |-> JStr("ok")]))
           [] v.s = "{\"level\":\"x\"}" -> Ok(JDict([level |-> JStr("x")]))
           [] v.s = "{\"timestamp\":\"t0\",\"stream\":\"s0\"}" ->
                 Ok(JDict([timestamp |-> JStr("t0"), stream |-> JStr("s0")]))
           [] v.s = "plain text" -> Raise(JSONDecodeError)

\* int(record["timestamp"]) on the timestamps drawn
IntOf(v) ==
    CASE v.t = "num" -> Ok(v.n)
      [] v.t = "str" /\ v.s = "1" -> Ok(1)
      [] v.t = "str" /\ v.s = "2" -> Ok(2)
      [] v.t = "str" /\ v.s \notin {"1", "2"} -> Raise([cls |-> "ValueError"])
      [] OTHER -> Raise([cls |-> "TypeError"])

\* record["labels"]["stream"]
Subscript(labels, key) ==
    IF labels.t # "dict" THEN Raise([cls |-> "TypeError"])
    ELSE IF key \notin DOMAIN labels.d THEN Raise([cls |-> "KeyError", key |-> key])
    ELSE Ok(labels.d[key])

\* {"timestamp": ts, "stream": stream, **entry}: a later key replaces an
\* earlier one
MergeDict(ts, stream, entry) ==
    [k \in {"timestamp", "stream"} \cup DOMAIN entry |->
        IF k \in DOMAIN entry THEN entry[k]
        ELSE IF k = "timestamp" THEN ts ELSE stream]

\* lines 49-56: one turn of the loop, in the order Python evaluates it
MergeOne(rec) ==
    LET entry == LineLoads(rec.record)
        ns == IntOf(rec.timestamp)
        stream == Subscript(rec.labels, "stream")
    IN  IF ~entry.ok THEN entry
        ELSE IF ~ns.ok THEN ns
        ELSE IF ~stream.ok THEN stream
        ELSE IF entry.val.t # "dict" THEN Raise([cls |-> "TypeError"])
        ELSE Ok(MergeDict(Instant(ns.val), stream.val, entry.val.d))

\* lines 47-56: the loop over raw_records, one record a step
AGMerge ==
    /\ pc = "ag_merge"
    /\ Len(records) < Len(raw_records)
    /\ LET r == MergeOne(raw_records[Len(records) + 1])
       IN  IF r.ok
           THEN /\ records' = Append(records, r.val)
                /\ UNCHANGED <<pc, exc>>
           ELSE /\ exc' = r.exc
                /\ pc' = "raised"
                /\ UNCHANGED records
    /\ UNCHANGED <<base_url, basic_auth, bearer_token, hours_ago, arg_data, now,
                   clock_reads, range, request, requests, outcome, raw_records,
                   output, headers, caller, qr_done>>

\* pd.DataFrame(records): one column per key met, NaN where a record lacks it
Columns(recs) == UNION {DOMAIN recs[i] : i \in 1..Len(recs)}
DataFrame(recs) ==
    [i \in 1..Len(recs) |->
        [k \in Columns(recs) |-> IF k \in DOMAIN recs[i] THEN recs[i][k] ELSE NaN]]

\* the order of the strings a log line may put in its "timestamp" field
StrRank(s) == CASE s = "t0" -> 0

SortKey(cell) == IF cell.t = "instant" THEN cell.ns ELSE StrRank(cell.s)

\* a column of Timestamps and strings cannot be ordered
MixedColumn(rows) ==
    \E i, j \in 1..Len(rows) : rows[i]["timestamp"].t # rows[j]["timestamp"].t

\* sort_values(by="timestamp", ascending=True) with the default
\* kind="quicksort".  pandas documents only "mergesort" and "stable" as
\* stable; what quicksort does with equal keys depends on the numpy build,
\* the CPU it dispatches on and the length of the column, so every ascending
\* arrangement is a possible result
SortedOrders(rows) ==
    {p \in Permutations(1..Len(rows)) :
        \A i, j \in 1..Len(rows) :
            i < j => SortKey(rows[p[i]]["timestamp"]) <= SortKey(rows[p[j]]["timestamp"])}

\* lines 58-64, once the loop is over: the frame, the sort, and the rows
\* handed to json.dumps
AGSort ==
    /\ pc = "ag_merge"
    /\ Len(records) = Len(raw_records)
    /\ IF "timestamp" \notin Columns(records)
       THEN /\ exc' = [cls |-> "KeyError", key |-> "timestamp"]
            /\ pc' = "raised"
            /\ UNCHANGED output
       ELSE IF MixedColumn(DataFrame(records))
       THEN /\ exc' = [cls |-> "TypeError"]
            /\ pc' = "raised"
            /\ UNCHANGED output
       ELSE /\ \E p \in SortedOrders(DataFrame(records)) :
                 output' = [i \in 1..Len(records) |-> DataFrame(records)[p[i]]]
            /\ pc' = "returned"
            /\ UNCHANGED exc
    /\ UNCHANGED <<base_url, basic_auth, bearer_token, hours_ago, arg_data, now,
                   clock_reads, range, request, requests, outcome, raw_records,
                   records, headers, caller, qr_done>>

-----------------------------------------------------------------------------
(* Direct calls of the pure functions *)

\* calculate_range(hours_ago), the clock read once
CallCalculateRange ==
    /\ pc = "call_calculate_range"
    /\ \E t \in 0..MaxNow :
          LET r == CalculateRange(hours_ago, t)
          IN  IF r.ok
              THEN /\ now' = t
                   /\ clock_reads' = clock_reads + 1
                   /\ range' = r.val
                   /\ pc' = "returned"
                   /\ UNCHANGED exc
              ELSE /\ exc' = r.exc
                   /\ pc' = "raised"
                   /\ UNCHANGED <<now, clock_reads, range>>
    /\ UNCHANGED <<base_url, basic_auth, bearer_token, hours_ago, arg_data,
                   request, requests, outcome, raw_records, records, output,
                   headers, caller, qr_done>>

\* LokiAuth(basic_auth, bearer_token).headers()
CallHeaders ==
    /\ pc = "call_headers"
    /\ LET h == Headers(basic_auth, bearer_token)
       IN  IF h.ok
           THEN /\ headers' = h.val
                /\ pc' = "returned"
                /\ UNCHANGED exc
           ELSE /\ exc' = h.exc
                /\ pc' = "raised"
                /\ UNCHANGED headers
    /\ UNCHANGED <<base_url, basic_auth, bearer_token, hours_ago, arg_data, now,
                   clock_reads, range, request, requests, outcome, raw_records,
                   records, output, caller, qr_done>>

\* LokiClient._parse_streams(data)
CallParseStreams ==
    /\ pc = "call_parse_streams"
    /\ LET r == ParseStreams(arg_data)
       IN  IF r.ok
           THEN /\ raw_records' = r.val
                /\ pc' = "returned"
                /\ UNCHANGED exc
           ELSE /\ exc' = r.exc
                /\ pc' = "raised"
                /\ UNCHANGED raw_records
    /\ UNCHANGED <<base_url, basic_auth, bearer_token, hours_ago, arg_data, now,
                   clock_reads, range, request, requests, outcome, records,
                   output, headers, caller, qr_done>>

-----------------------------------------------------------------------------
(* Inputs and specifications *)

MaxHours == 2
MaxCredLen == 2

HoursValues == -1..MaxHours
CredChars == {Colon, 117, 126}     \* ":", "u", "~"
CredStrings == UNION {[1..n -> CredChars] : n \in 0..MaxCredLen}
BasicValues == {NoneVal} \cup {TupleVal(u, p) : u, p \in CredStrings}
BearerValues == {NoneVal} \cup {StrVal(tok) : tok \in CredStrings}
LokiUrl == <<"h", "t", "t", "p", ":", "/", "/", "l", "o", "k", "i", ":", "3", "1", "0", "0">>
BaseUrls == {<<>>, LokiUrl, LokiUrl \o <<"/">>}

NoRequest == [endpoint |-> <<>>]
NoOutcome == [kind |-> "none"]

Start(position, who) ==
    /\ pc = position
    /\ caller = who
    /\ now = 0
    /\ clock_reads = 0
    /\ range = [start_ns |-> 0, end_ns |-> 0]
    /\ request = NoRequest
    /\ requests = 0
    /\ outcome = NoOutcome
    /\ raw_records = <<>>
    /\ records = <<>>
    /\ output = <<>>
    /\ headers = EmptyHeaders
    /\ qr_done = FALSE
    /\ exc = NoExc

InitRange ==
    /\ Start("call_calculate_range", "direct")
    /\ hours_ago \in HoursValues
    /\ base_url = <<>> /\ basic_auth = NoneVal /\ bearer_token = NoneVal
    /\ arg_data = NoneVal

InitAuth ==
    /\ Start("call_headers", "direct")
    /\ basic_auth \in BasicValues
    /\ bearer_token \in BearerValues
    /\ base_url = <<>> /\ hours_ago = 0 /\ arg_data = NoneVal

\* the decoded bodies _parse_streams is tried on: the odd envelopes, and
\* every list of at most two streams with at most MaxEntries value entries
InitFlatten ==
    /\ Start("call_parse_streams", "direct")
    /\ \/ arg_data \in OddEnvelopes \cup {Envelope(JList(<<>>))}
       \/ \E e \in 0..MaxEntries :
             \E st \in StreamsOfSize(e, ShapeLabels, ShapeEntries, ShapeExtra) :
                arg_data = Envelope(JList(<<st>>))
       \/ \E e \in Shares(MaxEntries) :
             \E st1 \in StreamsOfSize(e[1], ShapeLabels, ShapeEntries, ShapeExtra),
                st2 \in StreamsOfSize(e[2], ShapeLabels, ShapeEntries, ShapeExtra) :
                arg_data = Envelope(JList(<<st1, st2>>))
    /\ base_url = <<>> /\ hours_ago = 0
    /\ basic_auth = NoneVal /\ bearer_token = NoneVal

\* a caller's own client and query
InitQuery ==
    /\ Start("client_init", "direct")
    /\ base_url \in BaseUrls
    /\ basic_auth \in {NoneVal, TupleVal(<<117>>, <<126>>)}
    /\ bearer_token \in {NoneVal, StrVal(<<>>), StrVal(<<117>>)}
    /\ hours_ago \in HoursValues
    /\ arg_data = NoneVal

\* retrieve_logs_for_run(run_name, lookback_hours), lines 38-45
InitAgent ==
    /\ Start("client_init", "agent")
    /\ base_url = LokiUrl
    /\ basic_auth = NoneVal
    /\ bearer_token = NoneVal
    /\ hours_ago \in {-1, MaxHours}
    /\ arg_data = NoneVal

NextRange == CallCalculateRange
NextAuth == CallHeaders
NextFlatten == CallParseStreams
NextQuery == ClientInit \/ QRange \/ QRequest \/ QUrlopen \/ QLoads \/ QParse
NextAgent == NextQuery \/ AGMerge \/ AGSort

SpecRange == InitRange /\ [][NextRange]_vars
SpecAuth == InitAuth /\ [][NextAuth]_vars
SpecFlatten == InitFlatten /\ [][NextFlatten]_vars
SpecQuery == InitQuery /\ [][NextQuery]_vars
SpecAgent == InitAgent /\ [][NextAgent]_vars

-----------------------------------------------------------------------------
(* Properties *)

Ended == pc \in {"returned", "raised"}

\* the clock reading in nanoseconds, exactly
ExactUnixNs(ticks) == ticks * NsPerTick

Abs(x) == IF x < 0 THEN -x ELSE x

\* two units in the last place of the largest timestamp a call can meet
RangeEpsilon ==
    2 * Pow2(BitLen(NsPerTick * (MaxNow + MaxHours * TicksPerHour)) - MantBits)

\* C10: for every hours_ago >= 0, calculate_range reads the clock once and
\* returns (start, end) in integer nanoseconds with end equal to that
\* reading, start <= end, and end - start equal to hours_ago hours in
\* nanoseconds to within a fixed small epsilon.
C10_RangeFromOneReading ==
    (pc = "returned") =>
        /\ clock_reads = 1
        /\ range.end_ns = ExactUnixNs(now)
        /\ range.start_ns <= range.end_ns
        /\ Abs((range.end_ns - range.start_ns) - hours_ago * NsPerHour) <= RangeEpsilon

\* a credential field is populated when it holds a non-empty value
Populated(v) == v # NoneVal /\ (v.t = "str" => Len(v.s) > 0)

B64Index(c) ==
    IF c >= 65 /\ c <= 90 THEN c - 65
    ELSE IF c >= 97 /\ c <= 122 THEN c - 97 + 26
    ELSE IF c >= 48 /\ c <= 57 THEN c - 48 + 52
    ELSE IF c = 43 THEN 62 ELSE 63

\* the bytes a base64 text stands for (RFC 4648)
RECURSIVE B64Decode(_)
B64Decode(c) ==
    IF Len(c) < 4 THEN <<>>
    ELSE LET b1 == B64Index(c[1]) * 4 + B64Index(c[2]) \div 16
             b2 == (B64Index(c[2]) % 16) * 16 + B64Index(c[3]) \div 4
             b3 == (B64Index(c[3]) % 4) * 64 + B64Index(c[4])
         IN  IF c[3] = 61 THEN <<b1>>
             ELSE IF c[4] = 61 THEN <<b1, b2>>
             ELSE <<b1, b2, b3>> \o B64Decode(SubSeq(c, 5, Len(c)))

IsBasicHeaderFor(h, user, password) ==
    /\ DOMAIN h = {"Authorization"}
    /\ LET v == h["Authorization"]
           n == Len(user) + 1 + Len(password)
       IN  /\ Len(v) = 6 + 4 * ((n + 2) \div 3)
           /\ SubSeq(v, 1, 6) = <<66, 97, 115, 105, 99, 32>>
           /\ B64Decode(SubSeq(v, 7, Len(v))) = user \o <<58>> \o password

IsBearerHeaderFor(h, token) ==
    /\ DOMAIN h = {"Authorization"}
    /\ h["Authorization"] = <<66, 101, 97, 114, 101, 114, 32>> \o token

\* C7: headers() fails with the ValueError naming both modes whenever both
\* the basic and the bearer field are populated, never picking one of them;
\* with only basic populated it returns exactly
\* {Authorization: "Basic " + base64(user:password)}, with only bearer
\* exactly {Authorization: "Bearer " + token}, with neither an empty mapping.
C7_CredentialModes ==
    Ended =>
        IF Populated(basic_auth) /\ Populated(bearer_token)
        THEN pc = "raised" /\ exc.cls = "ValueError" /\ headers = EmptyHeaders
        ELSE /\ pc = "returned"
             /\ IF Populated(basic_auth)
                THEN IsBasicHeaderFor(headers, basic_auth.user, basic_auth.password)
                ELSE IF Populated(bearer_token)
                THEN IsBearerHeaderFor(headers, bearer_token.s)
                ELSE DOMAIN headers = {}

C7_Witness ==
    /\ pc = "raised"
    /\ Populated(basic_auth) /\ Populated(bearer_token)
    /\ Len(basic_auth.user) > 0

\* the streams, labels and values of a decoded body, read as the wire
\* contract gives them: a part that is missing or of another shape holds
\* nothing
StreamsOf(data) ==
    IF data.t = "dict" /\ "data" \in DOMAIN data.d
       /\ data.d["data"].t = "dict" /\ "result" \in DOMAIN data.d["data"].d
       /\ data.d["data"].d["result"].t = "list"
    THEN data.d["data"].d["result"].l ELSE <<>>

ValuesOf(stream) ==
    IF stream.t = "dict" /\ "values" \in DOMAIN stream.d
       /\ stream.d["values"].t = "list"
    THEN stream.d["values"].l ELSE <<>>

LabelsOf(stream) ==
    IF stream.t = "dict" /\ "stream" \in DOMAIN stream.d
    THEN stream.d["stream"] ELSE EmptyDict

\* the places <<stream, value>> of a body that hold a two-element pair
PairPlaces(data) ==
    UNION {{<<i, j>> :
              j \in {n \in 1..Len(ValuesOf(StreamsOf(data)[i])) :
                       LET e == ValuesOf(StreamsOf(data)[i])[n]
                       IN  e.t = "list" /\ Len(e.l) = 2}} :
           i \in 1..Len(StreamsOf(data))}

Before(p, q) == p[1] < q[1] \/ (p[1] = q[1] /\ p[2] < q[2])

C5_FlattenNeverFails == pc # "raised"

\* a call passes validation when the client could be built, the lookback is
\* not negative and at most one credential mode is populated
Validated ==
    /\ Len(base_url) > 0
    /\ hours_ago >= 0
    /\ ~(Populated(basic_auth) /\ Populated(bearer_token))

TimedOut ==
    \/ outcome.kind = "socket_timeout"
    \/ (outcome.kind = "url_error" /\ outcome.reason = "timed out")

\* C8: a query_range call that passes validation issues exactly one HTTP
\* request by the time it ends, never a second one whatever the backend
\* answered, and a timeout ends the call in an exception with no records.
C8_ExactlyOneRequest ==
    /\ requests <= 1
    /\ (Ended /\ Validated) => requests = 1
    /\ TimedOut => (pc = "raised" /\ ~qr_done /\ Len(raw_records) = 0)

C8_Witness ==
    /\ pc = "raised"
    /\ Validated
    /\ outcome.kind = "url_error"
    /\ requests = 1

\* C9: an empty base URL fails in the constructor, a negative hours_ago and
\* a double credential fail in query_range, each with its ValueError, and in
\* every such run no HTTP request is issued.
C9_InvalidNeverSent ==
    /\ ~Validated => requests = 0
    /\ (Ended /\ ~Validated) =>
          /\ pc = "raised"
          /\ exc = (IF Len(base_url) = 0 THEN ValueErrorBaseUrl
                    ELSE IF hours_ago < 0 THEN ValueErrorHours
                    ELSE ValueErrorBoth)

C9_Witness ==
    /\ pc = "raised"
    /\ Len(base_url) > 0 /\ hours_ago >= 0
    /\ Populated(basic_auth) /\ Populated(bearer_token)
    /\ clock_reads = 1
    /\ requests = 0

\* why a call failed, as the error taxonomy names the causes
CauseOf(o) ==
    CASE o.kind = "http_error" -> "http"
      [] o.kind \in {"url_error", "socket_timeout"} -> "transport"
      [] o.kind = "success" /\ o.body.enc = "utf-8" /\ o.body.syntax = "malformed" -> "parse"
      [] OTHER -> "none"

\* the exception class query_range ends in when the backend answers o
ErrorKind(o) ==
    IF ~Classify(o).ok THEN Classify(o).exc.cls
    ELSE IF ~JsonLoads(Classify(o).val).ok THEN JsonLoads(Classify(o).val).exc.cls
    ELSE "none"

GenericKinds == {"Exception", "RuntimeError"}

\* C1: a failed query_range call ends in an error whose kind tells its
\* cause: a non-2xx response, a transport failure and a malformed body give
\* three kinds, no kind stands for two causes, and none is a generic error;
\* the error of a non-2xx response carries the status code and the body.
C1_TypedErrors ==
    (pc = "raised" /\ CauseOf(outcome) # "none") =>
        /\ exc.cls \notin GenericKinds
        /\ \A o \in QueryOutcomes :
              CauseOf(o) \notin {"none", CauseOf(outcome)} => ErrorKind(o) # exc.cls
        /\ outcome.kind = "http_error" =>
              (exc.code = outcome.code /\ exc.body = outcome.body)

\* C2: retrieve_logs_for_run ends in an error only when the query failed:
\* once query_range has returned, the tool returns, and with zero records it
\* returns an empty array; a failed query never ends in a returned value.
C2_EmptyIsNotFailure ==
    (caller = "agent" /\ Ended) =>
        /\ qr_done => pc = "returned"
        /\ (qr_done /\ Len(raw_records) = 0) => Len(output) = 0
        /\ ~qr_done => pc = "raised"

\* whether sequence out is sequence in sorted ascending by timestamp, equal
\* timestamps keeping their order
IsStableSortOf(out, in) ==
    /\ Len(out) = Len(in)
    /\ \E p \in Permutations(1..Len(in)) :
          /\ \A i \in 1..Len(in) : out[i] = in[p[i]]
          /\ \A i, j \in 1..Len(in) :
                i < j =>
                  \/ SortKey(in[p[i]]["timestamp"]) < SortKey(in[p[j]]["timestamp"])
                  \/ /\ SortKey(in[p[i]]["timestamp"]) = SortKey(in[p[j]]["timestamp"])
                     /\ p[i] < p[j]

\* C3: the sequence retrieve_logs_for_run returns is a permutation of the
\* merged records, ascending by timestamp, records of equal timestamp in
\* their flatten order.
C3_SortedStablePermutation ==
    (caller = "agent" /\ pc = "returned") => IsStableSortOf(output, records)

\* C4: every merged record has timestamp equal to the instant of the flat
\* record's nanosecond timestamp, stream equal to the "stream" label, and
\* every decoded payload field at the top level, whatever keys the payload
\* holds.
C4_MergedRecordFields ==
    (caller = "agent") =>
        \A i \in 1..Len(records) :
            LET flat == raw_records[i]
                payload == LineLoads(flat.record).val.d
            IN  /\ records[i]["timestamp"] = Instant(IntOf(flat.timestamp).val)
                /\ records[i]["stream"] = flat.labels.d["stream"]
                /\ \A k \in DOMAIN payload : records[i][k] = payload[k]

=============================================================================
